---- MODULE Spec2Model ----
(***************************************************************************)
(* A model of the energy price / generation analysis in src/src/compute.rs *)
(* and src/src/convert.rs: the five-minute bucket indexer, the bucketed    *)
(* averages, the timestamp-aligned price/generation iterator and the       *)
(* per-source value averages.                                              *)
(*                                                                         *)
(* f64 values are modelled as exact rationals [n |-> _, d |-> _]: inputs   *)
(* are small integers (d = 1), a division yields the reduced fraction,     *)
(* and the IEEE results of dividing by zero are kept apart: 0/0 is NaN     *)
(* (d = 0, n = 0) and x/0 is an infinity (d = 0, n = 1 or -1).             *)
(***************************************************************************)
EXTENDS Integers, Sequences, FiniteSets, TLC

VARIABLES
    \* --- average_value_5min_custom over PriceGenIter -----------------------
    prices,            \* the rows the price csv reader yields, in file order
    gen,               \* the rows the generation csv reader yields
    pi,                \* rows of prices the iterator has consumed
    gi,                \* rows of gen the iterator has consumed
    emitted,           \* the pairs next() has returned so far, each as the
                       \* positions <<i, j>> of its rows prices[i] and gen[j]
    accs,              \* accs[idx], integer value totals during the loop
    qtys,              \* qtys[idx], integer quantity totals
    merge,             \* TRUE: gen_mod is the solar/battery merge closure
    debug_assertions,  \* TRUE: the build keeps debug_assert!
    vpc,               \* "loop" | "done" | "panic" | "idle"
    stop,              \* why next() returned None: "" while it has not
    value_result,      \* what average_value_5min_custom returned
    \* --- average_gen_5min_custom / average_price_5min ----------------------
    kind,              \* "gen" | "gen_solar_battery" | "price" | "idle"
    results,           \* results[idx], integer sums while reading
    counts,            \* counts[idx]
    nread,             \* lines read so far
    day_order,         \* "asc" | "desc": the full-day feed's order; "free": any rows
    apc,               \* "read" | "done" | "panic" | "idle"
    agg_result,        \* what the aggregation returned
    \* --- bucket indexer ----------------------------------------------------
    idx_in,            \* the index given to idx_5min_to_time
    idx_time,          \* the (hour, minute) it returned
    idx_out,           \* time_to_idx_5min of that
    ipc,               \* "start" | "time" | "done" | "idle"
    \* --- the solar/battery merge closure on one row ------------------------
    mrg_pipe,          \* "bucket" | "value": whose closure; "idle"
    mrg_row,           \* the sources of the row before gen_mod
    mrg_out,           \* the sources after gen_mod, <<>> before
    \* --- write_energy_value_averages ---------------------------------------
    csv_out,           \* the records written to the csv, <<>> before
    \* --- PriceGenIter::next, one loop iteration at a time ------------------
    ipos,              \* "idle": between calls | "loop" | "panic" | "off"
    call_at,           \* <<pi, gi>> when the running or last call began
    skips,             \* rows the running or last call skipped
    last,              \* what the last call returned: "" | "some" | "none"
    nones              \* calls that have returned None

value_vars == <<prices, gen, pi, gi, emitted, accs, qtys, merge,
                debug_assertions, vpc, stop, value_result>>
agg_vars == <<kind, results, counts, nread, day_order, apc, agg_result>>
idx_vars == <<idx_in, idx_time, idx_out, ipc>>
merge_vars == <<mrg_pipe, mrg_row, mrg_out>>
iter_vars == <<ipos, call_at, skips, last, nones>>
more_vars == <<merge_vars, csv_out, iter_vars>>
vars == <<value_vars, agg_vars, idx_vars, more_vars>>

----------------------------------------------------------------------------
(* Bounds of the model *)

\* Longest price input; the generation input is one row shorter at most,
\* and the two inputs hold at most MaxLen + 2 rows together.
MaxLen == 3
\* Most lines a free-feed bucketed aggregation reads.
MaxLines == 15
\* Most calls of next() that return None on one iterator.
MaxNones == 2
\* Largest battery or solar quantity, of either sign, of a row given to the
\* merge closure alone.
MaxQty == 3

----------------------------------------------------------------------------
(* f64 *)

Abs(x) == IF x < 0 THEN -x ELSE x

RECURSIVE Gcd(_, _)
Gcd(a, b) == IF b = 0 THEN a ELSE Gcd(b, a % b)

F(x) == [n |-> x, d |-> 1]
NaN == [n |-> 0, d |-> 0]
IsFinite(v) == v.d # 0

\* a / b on f64 for integer-valued a and b
FDiv(a, b) ==
    IF b = 0
    THEN IF a = 0 THEN NaN ELSE [n |-> (IF a > 0 THEN 1 ELSE -1), d |-> 0]
    ELSE LET g == Gcd(Abs(a), Abs(b))
             s == IF b < 0 THEN -1 ELSE 1
         IN  [n |-> (s * a) \div g, d |-> (s * b) \div g]

----------------------------------------------------------------------------
(* Source categories: EnergyGenCsvRow::sources and HEADER_KEYWORDS *)

NSOURCES == 14
SourceIdx == 0 .. (NSOURCES - 1)
BATTERY_IDX == 1
SOLAR_IDX == 12

AllZeroSources == [i \in SourceIdx |-> 0]

\* the names of EnergyGenCsvRow::HEADER_KEYWORDS
HEADER_KEYWORDS ==
    << "Timestamp", "Beginning", "Ending", "Date", "Hour", "Total",
       "Batteries", "Biogas", "Biomass", "Coal", "Geothermal", "Imports",
       "Large Hydro", "Natural Gas", "Nuclear", "Other", "Small Hydro",
       "Solar", "Wind" >>

\* mutant of source_keys: the synthetic total is skipped too
source_keys_without_total == SubSeq(HEADER_KEYWORDS, 7, Len(HEADER_KEYWORDS))

\* Self::HEADER_KEYWORDS.iter().copied().skip(5), as a sequence: the key of
\* source idx is source_keys[idx + 1]
source_keys == SubSeq(HEADER_KEYWORDS, 6, Len(HEADER_KEYWORDS))

\* assert!(keys[BATTERY_IDX] == "Batteries") and assert!(keys[SOLAR_IDX] ==
\* "Solar") of battery_idx() and solar_idx() hold
IdxAssertsHold ==
    /\ source_keys[BATTERY_IDX + 1] = "Batteries"
    /\ source_keys[SOLAR_IDX + 1] = "Solar"

\* EnergyGenCsvRow::sources of a row whose other categories are 0.
Sources(total, battery, coal, geothermal, solar) ==
    [i \in SourceIdx |->
        CASE i = 0 -> total
          [] i = 1 -> battery
          [] i = 4 -> coal
          [] i = 5 -> geothermal
          [] i = 12 -> solar
          [] OTHER -> 0]

\* the closure of average_gen_5min / average_value_5min
GenModNone(row) == row

\* mutant of GenModSolarBattery: the battery is zeroed before it is added
GenModSolarBatteryZeroFirst(row) ==
    LET r1 == [row EXCEPT ![BATTERY_IDX] = 0]
    IN  [r1 EXCEPT ![SOLAR_IDX] = r1[SOLAR_IDX] + r1[BATTERY_IDX]]

\* the closure of average_gen_solar_battery / average_value_solar_battery
GenModSolarBattery(row) ==
    LET r1 == [row EXCEPT ![SOLAR_IDX] = row[SOLAR_IDX] + row[BATTERY_IDX]]
    IN  [r1 EXCEPT ![BATTERY_IDX] = 0]

\* mutant of GenMod: the rows are weighted as they are read, unmerged
GenModNotApplied(m, row) == GenModNone(row)

GenMod(m, row) == IF m THEN GenModSolarBattery(row) ELSE GenModNone(row)

----------------------------------------------------------------------------
(* Timestamps.  A timestamp string is a token [t, form]: NaiveDateTime::    *)
(* parse_from_str with "%Y-%m-%d %H:%M:%S" reads a numeric field of one or  *)
(* two digits, so "2024-01-05 00:00:00" (padded) and "2024-1-5 00:00:00"    *)
(* (unpadded) are different strings of the same date-time t; a malformed    *)
(* string has no date-time.                                                 *)

NoTime == 0

Padded(t) == [t |-> t, form |-> "padded"]
Unpadded(t) == [t |-> t, form |-> "unpadded"]
Malformed == [t |-> NoTime, form |-> "malformed"]

\* NaiveDateTime::parse_from_str(s, "%Y-%m-%d %H:%M:%S").ok(): NoTime is None
ParseTimestamp(s) == IF s.form = "malformed" THEN NoTime ELSE s.t

----------------------------------------------------------------------------
(* The rows the two csv readers can yield *)

\* Result<EnergyPriceCsvRow, csv::Error>
PriceOk(ts, lmp) == [ok |-> TRUE, timestamp |-> ts, lmp_avg |-> lmp]
PriceErr == [ok |-> FALSE, timestamp |-> Malformed, lmp_avg |-> 0]

\* Result<EnergyGenCsvRow, csv::Error>
GenOk(ts, src) == [ok |-> TRUE, local_timestamp_start |-> ts, sources |-> src]
GenErr == [ok |-> FALSE, local_timestamp_start |-> Malformed,
           sources |-> AllZeroSources]

PriceRows ==
    { PriceOk(Padded(1), 2), PriceOk(Padded(2), 4), PriceOk(Padded(3), -1),
      PriceOk(Unpadded(1), 2), PriceOk(Malformed, 4), PriceErr }

GenRows ==
    { GenOk(Padded(1), Sources(15, -5, 0, 10, 3)),
      GenOk(Padded(2), Sources(37, 5, 0, 30, 2)),
      GenOk(Padded(3), Sources(7, 0, 0, 0, 7)),
      GenOk(Malformed, Sources(1, 0, 0, 1, 0)), GenErr }

SeqsUpTo(S, n) == UNION { [1 .. k -> S] : k \in 0 .. n }

----------------------------------------------------------------------------
(* PriceGenIter::next *)

\* mutant of IterNext: a timestamp that does not parse is compared as the
\* default date-time instead of ending the call
RECURSIVE IterNextUnparsedCompared(_, _, _, _, _)
IterNextUnparsedCompared(ps, gs, pc, gc, dbg) ==
    LET pHas == pc < Len(ps)
        gHas == gc < Len(gs)
        none(why) == [kind |-> "none", why |-> why, p |-> pc, g |-> gc,
                      pair |-> <<>>]
    IN  IF (pHas /\ ~ps[pc + 1].ok) \/ (gHas /\ ~gs[gc + 1].ok)
        THEN none("decode")
        ELSE IF ~pHas \/ ~gHas
        THEN none("exhausted")
        ELSE LET price == ps[pc + 1]
                 g == gs[gc + 1]
                 price_time == ParseTimestamp(price.timestamp)
                 gen_time == ParseTimestamp(g.local_timestamp_start)
             IN  IF price_time = gen_time
                 THEN IF dbg /\ price.timestamp # g.local_timestamp_start
                      THEN [kind |-> "panic", why |-> "debug_assert",
                            p |-> pc + 1, g |-> gc + 1, pair |-> <<>>]
                      ELSE [kind |-> "some", why |-> "", p |-> pc + 1,
                            g |-> gc + 1, pair |-> <<pc + 1, gc + 1>>]
                 ELSE IF price_time > gen_time
                 THEN IterNextUnparsedCompared(ps, gs, pc, gc + 1, dbg)
                 ELSE IterNextUnparsedCompared(ps, gs, pc + 1, gc, dbg)

\* One call of next() with pc price rows and gc generation rows consumed.
\* kind "some": the pair is returned; "none": None, for the reason given;
\* "panic": the debug_assert! of a debug build fails.  p and g are the rows
\* consumed when the call ends; the pair is given by the positions of its
\* two rows.
RECURSIVE IterNext(_, _, _, _, _)
IterNext(ps, gs, pc, gc, dbg) ==
    LET pHas == pc < Len(ps)
        gHas == gc < Len(gs)
        none(why) == [kind |-> "none", why |-> why, p |-> pc, g |-> gc,
                      pair |-> <<>>]
    IN  IF (pHas /\ ~ps[pc + 1].ok) \/ (gHas /\ ~gs[gc + 1].ok)
        THEN none("decode")
        ELSE IF ~pHas \/ ~gHas
        THEN none("exhausted")
        ELSE LET price == ps[pc + 1]
                 g == gs[gc + 1]
                 price_time == ParseTimestamp(price.timestamp)
                 gen_time == ParseTimestamp(g.local_timestamp_start)
             IN  IF price_time = NoTime \/ gen_time = NoTime
                 THEN none("malformed")
                 ELSE IF price_time = gen_time
                 THEN IF dbg /\ price.timestamp # g.local_timestamp_start
                      THEN [kind |-> "panic", why |-> "debug_assert",
                            p |-> pc + 1, g |-> gc + 1, pair |-> <<>>]
                      ELSE [kind |-> "some", why |-> "", p |-> pc + 1,
                            g |-> gc + 1, pair |-> <<pc + 1, gc + 1>>]
                 ELSE IF price_time > gen_time
                 THEN IterNext(ps, gs, pc, gc + 1, dbg)
                 ELSE IterNext(ps, gs, pc + 1, gc, dbg)

----------------------------------------------------------------------------
(* Compute::average_value_5min_custom *)

\* mutant of AddQty: the quantity is added with its sign
AddQtySigned(total, qty) == total + qty

\* qtys[idx] += qty.abs()
AddQty(total, qty) == total + Abs(qty)

\* accs[idx] += qty * price.lmp_avg
AddValue(total, qty, lmp_avg) == total + qty * lmp_avg

\* mutant of FinalizeValue: the division is not guarded
FinalizeValueUnguarded(total, qty) == FDiv(total, qty)

\* if qtys[idx] != 0. { *total /= qtys[idx] }
FinalizeValue(total, qty) == IF qty # 0 THEN FDiv(total, qty) ELSE F(total)

Pending == [status |-> "pending", averages |-> <<>>, qtys |-> <<>>]

ValueInit(m) ==
    /\ prices \in SeqsUpTo(PriceRows, MaxLen)
    /\ gen \in SeqsUpTo(GenRows, MaxLen - 1)
    /\ Len(prices) + Len(gen) <= MaxLen + 2
    /\ merge = m
    /\ debug_assertions \in BOOLEAN
    /\ pi = 0
    /\ gi = 0
    /\ emitted = <<>>
    /\ accs = AllZeroSources
    /\ qtys = AllZeroSources
    /\ vpc = "loop"
    /\ stop = ""
    /\ value_result = Pending

ValueIdle ==
    /\ prices = <<>>
    /\ gen = <<>>
    /\ merge = FALSE
    /\ debug_assertions = FALSE
    /\ pi = 0
    /\ gi = 0
    /\ emitted = <<>>
    /\ accs = AllZeroSources
    /\ qtys = AllZeroSources
    /\ vpc = "idle"
    /\ stop = ""
    /\ value_result = Pending

\* The for loop takes a pair from the iterator and accumulates it.
ValuePair ==
    /\ vpc = "loop"
    /\ LET r == IterNext(prices, gen, pi, gi, debug_assertions)
       IN  /\ r.kind = "some"
           /\ LET price == prices[r.pair[1]]
                  sources == GenMod(merge, gen[r.pair[2]].sources)
              IN  /\ qtys' = [i \in SourceIdx |-> AddQty(qtys[i], sources[i])]
                  /\ accs' = [i \in SourceIdx |->
                                 AddValue(accs[i], sources[i], price.lmp_avg)]
           /\ pi' = r.p
           /\ gi' = r.g
           /\ emitted' = Append(emitted, r.pair)
    /\ UNCHANGED <<prices, gen, merge, debug_assertions, vpc, stop,
                   value_result>>
    /\ UNCHANGED <<agg_vars, idx_vars, more_vars>>

\* The iterator returns None: the loop ends, the totals are finalized and
\* Ok((accs, qtys)) is returned.
ValueFinish ==
    /\ vpc = "loop"
    /\ LET r == IterNext(prices, gen, pi, gi, debug_assertions)
       IN  /\ r.kind = "none"
           /\ pi' = r.p
           /\ gi' = r.g
           /\ stop' = r.why
    /\ value_result' =
           [status |-> "ok",
            averages |-> [i \in SourceIdx |-> FinalizeValue(accs[i], qtys[i])],
            qtys |-> [i \in SourceIdx |-> F(qtys[i])]]
    /\ vpc' = "done"
    /\ UNCHANGED <<prices, gen, merge, debug_assertions, emitted, accs, qtys>>
    /\ UNCHANGED <<agg_vars, idx_vars, more_vars>>

\* A debug build: the pair's timestamp strings differ and debug_assert! panics.
ValuePanic ==
    /\ vpc = "loop"
    /\ LET r == IterNext(prices, gen, pi, gi, debug_assertions)
       IN  /\ r.kind = "panic"
           /\ pi' = r.p
           /\ gi' = r.g
           /\ stop' = r.why
    /\ vpc' = "panic"
    /\ UNCHANGED <<prices, gen, merge, debug_assertions, emitted, accs, qtys,
                   value_result>>
    /\ UNCHANGED <<agg_vars, idx_vars, more_vars>>


----------------------------------------------------------------------------
(* Bucket indexer *)

MINS_PER_DAY == 24 * 60
MINS_INCR == 5
MAX_WINDOW_MISS == 12

\* results.len(): the number of five-minute windows of a day
NumBuckets == MINS_PER_DAY \div MINS_INCR
BucketIdx == 0 .. (NumBuckets - 1)

\* mutant of time_to_idx_5min: the hour is left out
time_to_idx_5min_minute_only(hour, minute) == minute \div MINS_INCR

\* ((hour * 60) + minute) as usize / Self::MINS_INCR.  hour and minute are
\* u32; the rows of the model stay far below the width, so nothing wraps.
time_to_idx_5min(hour, minute) == ((hour * 60) + minute) \div MINS_INCR

\* mutant of idx_5min_to_time: the index is not scaled to minutes
idx_5min_to_time_unscaled(idx) == <<idx \div 60, idx % 60>>

\* ((idx as u32 * 5) / 60, (idx as u32 * 5) % 60)
idx_5min_to_time(idx) == <<(idx * 5) \div 60, (idx * 5) % 60>>

----------------------------------------------------------------------------
(* Compute::average_gen_5min_custom and Compute::average_price_5min *)

\* mutant of Uneven: only a bucket with more lines than bucket 0 offends
UnevenOneSided(ct, count0) == ct - count0 > MAX_WINDOW_MISS

\* mutant of Uneven: the threshold is 8
UnevenEight(ct, count0) ==
    (IF ct > count0 THEN ct ELSE count0) - (IF ct < count0 THEN ct ELSE count0)
        > 8

\* ct.max(&counts[0]) - ct.min(&counts[0]) > Self::MAX_WINDOW_MISS
Uneven(ct, count0) ==
    (IF ct > count0 THEN ct ELSE count0) - (IF ct < count0 THEN ct ELSE count0)
        > MAX_WINDOW_MISS

\* The rows of a csv the aggregation reads: a generation row carries
\* sources, a price row lmp_avg.
AggRow(hour, minute, src, lmp) ==
    [hour |-> hour, minute |-> minute, sources |-> src, lmp_avg |-> lmp]

\* (0,0) and (0,4) share bucket 0, (0,5) is bucket 1; hour 24 is a row
\* whose bucket is past the end of results.
AggRows ==
    { AggRow(0, 0, Sources(4, -2, 0, 1, 5), 3),
      AggRow(0, 4, Sources(8, 2, 0, 3, 3), 6),
      AggRow(0, 5, Sources(6, 1, 0, 2, 3), -4),
      AggRow(24, 0, Sources(1, 0, 0, 1, 0), 1) }

\* the row the full-day feed gives for minute m of the day
DayRow(m) ==
    AggRow(m \div 60, m % 60, Sources(m % 3, 1 - (m % 2), 0, 1, m % 4), m % 7)

\* the value a row adds to its bucket
AggValue(k, row) ==
    IF k = "price" THEN row.lmp_avg
    ELSE GenMod(k = "gen_solar_battery", row.sources)

AggZero(k) == IF k = "price" THEN 0 ELSE AllZeroSources

\* *res_src += src_val for each source / results[idx] += line.lmp_avg
AggAdd(k, total, val) ==
    IF k = "price" THEN total + val
    ELSE [i \in SourceIdx |-> total[i] + val[i]]

\* *val /= *ct as f64 for each source / *total /= *ct as f64
\* mutant of AggMean: an empty bucket is left at its zero, as the value
\* finalization leaves a source of zero quantity
AggMeanGuarded(k, total, ct) ==
    IF ct = 0
    THEN IF k = "price" THEN F(0) ELSE [i \in SourceIdx |-> F(0)]
    ELSE IF k = "price" THEN FDiv(total, ct)
         ELSE [i \in SourceIdx |-> FDiv(total[i], ct)]

AggMean(k, total, ct) ==
    IF k = "price" THEN FDiv(total, ct)
    ELSE [i \in SourceIdx |-> FDiv(total[i], ct)]

\* the buckets at which the finalization loop bails
Offending(cts) == { i \in BucketIdx : Uneven(cts[i], cts[0]) }

\* mutant of FirstOffending: the last offending bucket is reported
LastOffending(cts) ==
    LET off == { i \in DOMAIN cts : Uneven(cts[i], cts[0]) }
    IN  CHOOSE i \in off : \A j \in off : i >= j

\* the bucket at which the finalization loop, going up from 0, bails first
FirstOffending(cts) ==
    LET off == Offending(cts) IN CHOOSE i \in off : \A j \in off : i <= j

AggPending == [status |-> "pending", count0 |-> 0, count |-> 0, profile |-> <<>>]

\* the finalization loop and the return
Finalize(k, res, cts) ==
    IF \E i \in BucketIdx : Uneven(cts[i], cts[0])
    THEN [status |-> "uneven", count0 |-> cts[0],
          count |-> cts[FirstOffending(cts)], profile |-> <<>>]
    ELSE [status |-> "ok", count0 |-> 0, count |-> 0,
          profile |-> [i \in BucketIdx |-> AggMean(k, res[i], cts[i])]]

AggInitWith(order) ==
    /\ kind \in {"gen", "gen_solar_battery", "price"}
    /\ results = [i \in BucketIdx |-> AggZero(kind)]
    /\ counts = [i \in BucketIdx |-> 0]
    /\ nread = 0
    /\ day_order \in order
    /\ apc = "read"
    /\ agg_result = AggPending

AggIdle ==
    /\ kind = "idle"
    /\ results = <<>>
    /\ counts = <<>>
    /\ nread = 0
    /\ day_order = "free"
    /\ apc = "idle"
    /\ agg_result = AggPending

\* One pass of the read loop over a decoded line.
ReadLine(line) ==
    LET idx == time_to_idx_5min(line.hour, line.minute)
    IN  IF idx \in BucketIdx
        THEN /\ results' = [results EXCEPT
                               ![idx] = AggAdd(kind, @, AggValue(kind, line))]
             /\ counts' = [counts EXCEPT ![idx] = @ + 1]
             /\ nread' = nread + 1
             /\ UNCHANGED <<kind, day_order, apc, agg_result>>
        ELSE \* results[idx]: index out of bounds
             /\ apc' = "panic"
             /\ UNCHANGED <<kind, results, counts, nread, day_order, agg_result>>

\* The reader yields any decoded line.
AggRead ==
    /\ apc = "read"
    /\ day_order = "free"
    /\ nread < MaxLines
    /\ \E line \in AggRows : ReadLine(line)
    /\ UNCHANGED <<value_vars, idx_vars, more_vars>>

\* The reader yields the next line of a file with one line per minute of a day.
AggReadDay ==
    /\ apc = "read"
    /\ day_order \in {"asc", "desc"}
    /\ nread < MINS_PER_DAY
    /\ ReadLine(DayRow(IF day_order = "asc" THEN nread
                       ELSE MINS_PER_DAY - 1 - nread))
    /\ UNCHANGED <<value_vars, idx_vars, more_vars>>

\* The reader yields a decode error: line? returns it.
AggDecodeError ==
    /\ apc = "read"
    /\ day_order = "free"
    /\ apc' = "done"
    /\ agg_result' = [AggPending EXCEPT !.status = "decode"]
    /\ UNCHANGED <<kind, results, counts, nread, day_order>>
    /\ UNCHANGED <<value_vars, idx_vars, more_vars>>

\* The reader is exhausted: the finalization loop runs and the call returns.
AggFinish ==
    /\ apc = "read"
    /\ day_order = "free" \/ nread = MINS_PER_DAY
    /\ apc' = "done"
    /\ agg_result' = Finalize(kind, results, counts)
    /\ UNCHANGED <<kind, results, counts, nread, day_order>>
    /\ UNCHANGED <<value_vars, idx_vars, more_vars>>


----------------------------------------------------------------------------
(* The round trip through the bucket indexer *)

IdxInit ==
    /\ idx_in \in BucketIdx
    /\ idx_time = <<0, 0>>
    /\ idx_out = 0
    /\ ipc = "start"

IdxIdle ==
    /\ idx_in = 0
    /\ idx_time = <<0, 0>>
    /\ idx_out = 0
    /\ ipc = "idle"

IdxToTime ==
    /\ ipc = "start"
    /\ idx_time' = idx_5min_to_time(idx_in)
    /\ ipc' = "time"
    /\ UNCHANGED <<idx_in, idx_out>>
    /\ UNCHANGED <<value_vars, agg_vars, more_vars>>

TimeToIdx ==
    /\ ipc = "time"
    /\ idx_out' = time_to_idx_5min(idx_time[1], idx_time[2])
    /\ ipc' = "done"
    /\ UNCHANGED <<idx_in, idx_time>>
    /\ UNCHANGED <<value_vars, agg_vars, more_vars>>


----------------------------------------------------------------------------
(* The solar/battery merge closure on one row, in either pipeline *)

\* rows with every battery and solar quantity up to MaxQty of either sign
MergeRows ==
    { Sources(b + s + 2, b, 0, 2, s) : b \in -MaxQty .. MaxQty,
                                       s \in -MaxQty .. MaxQty }

MergeInit ==
    /\ mrg_pipe \in {"bucket", "value"}
    /\ mrg_row \in MergeRows
    /\ mrg_out = <<>>

MergeIdle ==
    /\ mrg_pipe = "idle"
    /\ mrg_row = <<>>
    /\ mrg_out = <<>>

\* average_gen_solar_battery: line.sources() then gen_mod(&mut sources)
MergeInBucketing ==
    /\ mrg_pipe = "bucket"
    /\ mrg_out = <<>>
    /\ IdxAssertsHold
    /\ mrg_out' = AggValue("gen_solar_battery", AggRow(0, 0, mrg_row, 0))
    /\ UNCHANGED <<mrg_pipe, mrg_row>>
    /\ UNCHANGED <<value_vars, agg_vars, idx_vars, csv_out, iter_vars>>

\* average_value_solar_battery: gen.sources() then gen_mod(&mut sources)
MergeInValue ==
    /\ mrg_pipe = "value"
    /\ mrg_out = <<>>
    /\ IdxAssertsHold
    /\ mrg_out' = GenMod(TRUE, mrg_row)
    /\ UNCHANGED <<mrg_pipe, mrg_row>>
    /\ UNCHANGED <<value_vars, agg_vars, idx_vars, csv_out, iter_vars>>

CsvIdle == csv_out = <<>>

----------------------------------------------------------------------------
(* write_energy_value_averages.  A written cell is what its format makes   *)
(* of the f64: "{:.2}" rounds to hundredths (ties of an exactly held value *)
(* to even) and keeps the sign, "{}" prints the shortest text that reads   *)
(* back as the same f64.                                                   *)

\* write!(.., "{avg_price:.2}")
FmtFixed2(v) ==
    IF v.d = 0
    THEN IF v.n = 0 THEN [text |-> "NaN"]
         ELSE IF v.n > 0 THEN [text |-> "inf"] ELSE [text |-> "-inf"]
    ELSE LET num == Abs(v.n) * 100
             q == num \div v.d
             r == num % v.d
             h == IF 2 * r > v.d THEN q + 1
                  ELSE IF 2 * r < v.d THEN q
                  ELSE IF q % 2 = 0 THEN q ELSE q + 1
         IN  [sign |-> IF v.n < 0 THEN "-" ELSE "",
              int |-> h \div 100, frac |-> h % 100]

\* write!(.., "{qty}")
FmtDisplay(v) ==
    IF v.d = 1 THEN [sign |-> IF v.n < 0 THEN "-" ELSE "", int |-> Abs(v.n)]
    ELSE [shortest |-> v]

CsvHeader == << "source", "avg_price", "net_mwh" >>

\* the records written: the header, then one per element of
\* source_keys().zip(averages.iter()).zip(qtys.iter())
write_energy_value_averages(averages, quantities) ==
    LET n == IF Len(source_keys) < NSOURCES THEN Len(source_keys)
             ELSE NSOURCES
    IN  <<CsvHeader>> \o
        [k \in 1 .. n |-> << source_keys[k], FmtFixed2(averages[k - 1]),
                             FmtDisplay(quantities[k - 1]) >>]

\* main: Args::WriteValueMinutes, after average_value_5min returned Ok
ValueWrite ==
    /\ vpc = "done"
    /\ value_result.status = "ok"
    /\ csv_out = <<>>
    /\ csv_out' = write_energy_value_averages(value_result.averages,
                                              value_result.qtys)
    /\ UNCHANGED <<value_vars, agg_vars, idx_vars, merge_vars, iter_vars>>

----------------------------------------------------------------------------
(* PriceGenIter::next, one iteration of its loop at a time, and called     *)
(* again after it has returned None                                        *)

\* mutant of IterLoopStep: the iteration goes on until both sides are
\* exhausted, skipping what is left of the other side
IterLoopStepDrainsBoth(ps, gs, pc, gc) ==
    LET pHas == pc < Len(ps)
        gHas == gc < Len(gs)
    IN  IF (pHas /\ ~ps[pc + 1].ok) \/ (gHas /\ ~gs[gc + 1].ok)
        THEN [kind |-> "none", why |-> "decode"]
        ELSE IF ~pHas /\ ~gHas
        THEN [kind |-> "none", why |-> "exhausted"]
        ELSE IF ~pHas THEN [kind |-> "skip_gen", why |-> ""]
        ELSE IF ~gHas THEN [kind |-> "skip_price", why |-> ""]
        ELSE LET price_time == ParseTimestamp(ps[pc + 1].timestamp)
                 gen_time == ParseTimestamp(gs[gc + 1].local_timestamp_start)
             IN  IF price_time = NoTime \/ gen_time = NoTime
                 THEN [kind |-> "none", why |-> "malformed"]
                 ELSE IF price_time = gen_time
                 THEN [kind |-> "break", why |-> ""]
                 ELSE IF price_time > gen_time
                 THEN [kind |-> "skip_gen", why |-> ""]
                 ELSE [kind |-> "skip_price", why |-> ""]

\* mutant of IterLoopStep: a head that fails to decode or to parse is
\* dropped by the call after the one it stopped
IterLoopStepResumes(ps, gs, pc, gc) ==
    LET pHas == pc < Len(ps)
        gHas == gc < Len(gs)
    IN  IF ~pHas \/ ~gHas
        THEN [kind |-> "none", why |-> "exhausted"]
        ELSE IF ~ps[pc + 1].ok \/ ~gs[gc + 1].ok
        THEN IF last = "none"
             THEN IF ~ps[pc + 1].ok THEN [kind |-> "skip_price", why |-> ""]
                  ELSE [kind |-> "skip_gen", why |-> ""]
             ELSE [kind |-> "none", why |-> "decode"]
        ELSE LET price_time == ParseTimestamp(ps[pc + 1].timestamp)
                 gen_time == ParseTimestamp(gs[gc + 1].local_timestamp_start)
             IN  IF price_time = NoTime \/ gen_time = NoTime
                 THEN [kind |-> "none", why |-> "malformed"]
                 ELSE IF price_time = gen_time
                 THEN [kind |-> "break", why |-> ""]
                 ELSE IF price_time > gen_time
                 THEN [kind |-> "skip_gen", why |-> ""]
                 ELSE [kind |-> "skip_price", why |-> ""]

\* What one iteration of the loop does with pc price rows and gc generation
\* rows consumed: return None, break, self.gen.next() or self.prices.next().
IterLoopStep(ps, gs, pc, gc) ==
    LET pHas == pc < Len(ps)
        gHas == gc < Len(gs)
    IN  IF (pHas /\ ~ps[pc + 1].ok) \/ (gHas /\ ~gs[gc + 1].ok)
        THEN [kind |-> "none", why |-> "decode"]
        ELSE IF ~pHas \/ ~gHas
        THEN [kind |-> "none", why |-> "exhausted"]
        ELSE LET price_time == ParseTimestamp(ps[pc + 1].timestamp)
                 gen_time == ParseTimestamp(gs[gc + 1].local_timestamp_start)
             IN  IF price_time = NoTime \/ gen_time = NoTime
                 THEN [kind |-> "none", why |-> "malformed"]
                 ELSE IF price_time = gen_time
                 THEN [kind |-> "break", why |-> ""]
                 ELSE IF price_time > gen_time
                 THEN [kind |-> "skip_gen", why |-> ""]
                 ELSE [kind |-> "skip_price", why |-> ""]

IterInit ==
    /\ prices \in SeqsUpTo(PriceRows, MaxLen)
    /\ gen \in SeqsUpTo(GenRows, MaxLen - 1)
    /\ Len(prices) + Len(gen) <= MaxLen + 1
    /\ merge = FALSE
    /\ debug_assertions \in BOOLEAN
    /\ pi = 0
    /\ gi = 0
    /\ emitted = <<>>
    /\ accs = AllZeroSources
    /\ qtys = AllZeroSources
    /\ vpc = "iter"
    /\ stop = ""
    /\ value_result = Pending
    /\ ipos = "idle"
    /\ call_at = <<0, 0>>
    /\ skips = 0
    /\ last = ""
    /\ nones = 0

\* next() is called, also on an iterator that has returned None before
IterCall ==
    /\ ipos = "idle"
    /\ nones < MaxNones
    /\ ipos' = "loop"
    /\ call_at' = <<pi, gi>>
    /\ skips' = 0
    /\ UNCHANGED <<last, nones>>
    /\ UNCHANGED <<value_vars, agg_vars, idx_vars, merge_vars, csv_out>>

\* return None, of either match arm or of .ok()?
IterReturnNone ==
    /\ ipos = "loop"
    /\ LET st == IterLoopStep(prices, gen, pi, gi)
       IN  /\ st.kind = "none"
           /\ stop' = st.why
    /\ ipos' = "idle"
    /\ last' = "none"
    /\ nones' = nones + 1
    /\ UNCHANGED <<call_at, skips>>
    /\ UNCHANGED <<prices, gen, pi, gi, emitted, accs, qtys, merge,
                   debug_assertions, vpc, value_result>>
    /\ UNCHANGED <<agg_vars, idx_vars, merge_vars, csv_out>>

\* Ordering::Greater => self.gen.next()
IterSkipGen ==
    /\ ipos = "loop"
    /\ IterLoopStep(prices, gen, pi, gi).kind = "skip_gen"
    /\ gi' = gi + 1
    /\ skips' = skips + 1
    /\ UNCHANGED <<ipos, call_at, last, nones>>
    /\ UNCHANGED <<prices, gen, pi, emitted, accs, qtys, merge,
                   debug_assertions, vpc, stop, value_result>>
    /\ UNCHANGED <<agg_vars, idx_vars, merge_vars, csv_out>>

\* Ordering::Less => self.prices.next()
IterSkipPrice ==
    /\ ipos = "loop"
    /\ IterLoopStep(prices, gen, pi, gi).kind = "skip_price"
    /\ pi' = pi + 1
    /\ skips' = skips + 1
    /\ UNCHANGED <<ipos, call_at, last, nones>>
    /\ UNCHANGED <<prices, gen, gi, emitted, accs, qtys, merge,
                   debug_assertions, vpc, stop, value_result>>
    /\ UNCHANGED <<agg_vars, idx_vars, merge_vars, csv_out>>

\* Ordering::Equal => break, both heads are taken and Some is returned
IterReturnSome ==
    /\ ipos = "loop"
    /\ IterLoopStep(prices, gen, pi, gi).kind = "break"
    /\ ~(debug_assertions
           /\ prices[pi + 1].timestamp # gen[gi + 1].local_timestamp_start)
    /\ pi' = pi + 1
    /\ gi' = gi + 1
    /\ emitted' = Append(emitted, <<pi + 1, gi + 1>>)
    /\ ipos' = "idle"
    /\ last' = "some"
    /\ UNCHANGED <<call_at, skips, nones>>
    /\ UNCHANGED <<prices, gen, accs, qtys, merge, debug_assertions, vpc,
                   stop, value_result>>
    /\ UNCHANGED <<agg_vars, idx_vars, merge_vars, csv_out>>

\* Ordering::Equal => break, both heads are taken and the debug_assert! of
\* a debug build fails on their strings
IterPanic ==
    /\ ipos = "loop"
    /\ IterLoopStep(prices, gen, pi, gi).kind = "break"
    /\ debug_assertions
    /\ prices[pi + 1].timestamp # gen[gi + 1].local_timestamp_start
    /\ pi' = pi + 1
    /\ gi' = gi + 1
    /\ ipos' = "panic"
    /\ UNCHANGED <<call_at, skips, last, nones>>
    /\ UNCHANGED <<prices, gen, emitted, accs, qtys, merge, debug_assertions,
                   vpc, stop, value_result>>
    /\ UNCHANGED <<agg_vars, idx_vars, merge_vars, csv_out>>

\* a step of a call that is running
IterRun ==
    IterReturnNone \/ IterSkipGen \/ IterSkipPrice \/ IterReturnSome
        \/ IterPanic

IterIdle ==
    /\ ipos = "off"
    /\ call_at = <<0, 0>>
    /\ skips = 0
    /\ last = ""
    /\ nones = 0

MoreIdle == MergeIdle /\ CsvIdle /\ IterIdle

----------------------------------------------------------------------------
(* Specifications *)

\* average_value_5min over any two inputs
Init == ValueInit(FALSE) /\ AggIdle /\ IdxIdle /\ MoreIdle
Next == ValuePair \/ ValueFinish \/ ValuePanic
Spec == Init /\ [][Next]_vars

\* average_value_solar_battery over any two inputs
InitSolarBattery == ValueInit(TRUE) /\ AggIdle /\ IdxIdle /\ MoreIdle
SpecSolarBattery == InitSolarBattery /\ [][Next]_vars

\* average_gen_5min / average_gen_solar_battery / average_price_5min over
\* any input of at most MaxLines lines
InitAgg == ValueIdle /\ AggInitWith({"free"}) /\ IdxIdle /\ MoreIdle
NextAgg == AggRead \/ AggDecodeError \/ AggFinish
SpecAgg == InitAgg /\ [][NextAgg]_vars

\* the same over a file with one line for each minute of a day
InitDay == ValueIdle /\ AggInitWith({"asc", "desc"}) /\ IdxIdle /\ MoreIdle
NextDay == AggReadDay \/ AggFinish
SpecDay == InitDay /\ [][NextDay]_vars

\* idx_5min_to_time followed by time_to_idx_5min
InitIdx == ValueIdle /\ AggIdle /\ IdxInit /\ MoreIdle
NextIdx == IdxToTime \/ TimeToIdx
SpecIdx == InitIdx /\ [][NextIdx]_vars

\* write-value-minutes: the value pipeline, then its csv
NextWrite == ValuePair \/ ValueFinish \/ ValuePanic \/ ValueWrite
SpecWrite == Init /\ [][NextWrite]_vars

\* next() called over and over, its loop taken one iteration at a time; a
\* call that has begun runs on until it returns or panics
InitIter == IterInit /\ AggIdle /\ IdxIdle /\ MergeIdle /\ CsvIdle
NextIter ==
    IterCall \/ IterReturnNone \/ IterSkipGen \/ IterSkipPrice
        \/ IterReturnSome \/ IterPanic
SpecIter == InitIter /\ [][NextIter]_vars /\ WF_vars(IterRun)

\* the solar/battery merge closure on any one row, in either pipeline
InitMerge ==
    ValueIdle /\ AggIdle /\ IdxIdle /\ MergeInit /\ CsvIdle /\ IterIdle
NextMerge == MergeInBucketing \/ MergeInValue
SpecMerge == InitMerge /\ [][NextMerge]_vars

----------------------------------------------------------------------------
(* What the claims speak of *)

\* the date-time a well-formed timestamp string denotes
PriceTime(row) == row.timestamp.t
GenTime(row) == row.local_timestamp_start.t

\* a row that decoded and whose timestamp parses
GoodPrice(row) == row.ok /\ row.timestamp.form # "malformed"
GoodGen(row) == row.ok /\ row.local_timestamp_start.form # "malformed"

\* both inputs decode, parse and are strictly ascending by date-time
CleanAscending ==
    /\ \A i \in 1 .. Len(prices) : GoodPrice(prices[i])
    /\ \A i \in 1 .. Len(gen) : GoodGen(gen[i])
    /\ \A i, j \in 1 .. Len(prices) :
           i < j => PriceTime(prices[i]) < PriceTime(prices[j])
    /\ \A i, j \in 1 .. Len(gen) : i < j => GenTime(gen[i]) < GenTime(gen[j])

\* the relational join on the date-time of the price rows from position i
\* on with the generation rows, in the order of the price rows
RECURSIVE JoinOnTime(_)
JoinOnTime(i) ==
    IF i > Len(prices) THEN <<>>
    ELSE LET m == { j \in 1 .. Len(gen) : GenTime(gen[j]) = PriceTime(prices[i]) }
             here == IF m = {} THEN <<>> ELSE << <<i, CHOOSE j \in m : TRUE>> >>
         IN  here \o JoinOnTime(i + 1)

\* the rows of an emitted pair
PriceOf(pair) == prices[pair[1]]
GenOf(pair) == gen[pair[2]]

\* the quantity of source idx in a pair, as the loop body sees it
PairQty(pair, idx) == GenMod(merge, GenOf(pair).sources)[idx]

\* sum over the pairs of abs(quantity)
RECURSIVE SumAbsQty(_, _)
SumAbsQty(pairs, idx) ==
    IF pairs = <<>> THEN 0
    ELSE Abs(PairQty(pairs[1], idx)) + SumAbsQty(Tail(pairs), idx)

\* sum over the pairs of quantity * price
RECURSIVE SumQtyPrice(_, _)
SumQtyPrice(pairs, idx) ==
    IF pairs = <<>> THEN 0
    ELSE PairQty(pairs[1], idx) * PriceOf(pairs[1]).lmp_avg
             + SumQtyPrice(Tail(pairs), idx)

\* sum over the pairs of abs(quantity) * price
RECURSIVE SumAbsQtyPrice(_, _)
SumAbsQtyPrice(pairs, idx) ==
    IF pairs = <<>> THEN 0
    ELSE Abs(PairQty(pairs[1], idx)) * PriceOf(pairs[1]).lmp_avg
             + SumAbsQtyPrice(Tail(pairs), idx)

\* v is the exact quotient a / b, b # 0, as the fraction in lowest terms
IsQuotient(v, a, b) ==
    /\ v.d > 0
    /\ v.n * b = a * v.d
    /\ \A y \in 1 .. (v.d - 1) : (a * y) % b # 0

----------------------------------------------------------------------------
(* C1: for inputs that decode, parse and are strictly ascending by          *)
(* timestamp, draining the iterator ends without an error and yields        *)
(* exactly one pair for every timestamp in both inputs, in ascending order. *)
C1_MergeJoinExact ==
    (vpc \in {"done", "panic"} /\ CleanAscending)
        => /\ vpc = "done"
           /\ stop = "exhausted"
           /\ emitted = JoinOnTime(1)

\* Beside C1: it holds of every build when no timestamp string is unpadded,
\* and of a build without debug assertions for every clean ascending input.
C1_HoldsWithoutTheAssertFailing ==
    (vpc \in {"done", "panic"} /\ CleanAscending
        /\ (~debug_assertions
               \/ \A i \in 1 .. Len(prices) : prices[i].timestamp.form = "padded"))
        => /\ vpc = "done"
           /\ stop = "exhausted"
           /\ emitted = JoinOnTime(1)

C3_IdenticalTimestampStrings ==
    \A i \in 1 .. Len(emitted) :
        PriceOf(emitted[i]).timestamp = GenOf(emitted[i]).local_timestamp_start

\* the head of either input is a decode error or a row whose timestamp
\* does not parse
BadHead ==
    \/ pi < Len(prices) /\ ~GoodPrice(prices[pi + 1])
    \/ gi < Len(gen) /\ ~GoodGen(gen[gi + 1])

\* res is Ok((accs, qtys)) as the pairs alone determine it
IsResultOf(res, pairs) ==
    /\ res.status = "ok"
    /\ \A idx \in SourceIdx :
           /\ res.qtys[idx] = F(SumAbsQty(pairs, idx))
           /\ IF SumAbsQty(pairs, idx) # 0
              THEN IsQuotient(res.averages[idx], SumQtyPrice(pairs, idx),
                              SumAbsQty(pairs, idx))
              ELSE res.averages[idx] = F(SumQtyPrice(pairs, idx))

(* C9: a decode error or an unparsable timestamp at the head of either      *)
(* input makes next() return None at once and consume nothing; no such row  *)
(* nor any row behind it is ever consumed or emitted; the error is not      *)
(* propagated: average_value_5min_custom returns Ok, computed from the      *)
(* pairs emitted before it.                                                 *)
C9_BadHeadEndsIterationSilently ==
    /\ \A k \in 1 .. pi : GoodPrice(prices[k])
    /\ \A k \in 1 .. gi : GoodGen(gen[k])
    /\ \A i \in 1 .. Len(emitted) :
           emitted[i][1] \in 1 .. pi /\ emitted[i][2] \in 1 .. gi
    /\ (vpc = "loop" /\ BadHead)
           => LET r == IterNext(prices, gen, pi, gi, debug_assertions)
              IN  r.kind = "none" /\ r.p = pi /\ r.g = gi
                      /\ r.why \in {"decode", "malformed", "exhausted"}
    /\ (vpc = "done" /\ stop \in {"decode", "malformed"}) => BadHead
    /\ (vpc = "done" /\ BadHead) => IsResultOf(value_result, emitted)

\* a pair was emitted, then a decode error came to the head of the prices
\* with a good row behind it, and the call returned Ok
C9_Witness ==
    /\ vpc = "done"
    /\ stop = "decode"
    /\ Len(emitted) = 1
    /\ pi + 2 <= Len(prices)
    /\ ~prices[pi + 1].ok
    /\ GoodPrice(prices[pi + 2])
    /\ value_result.status = "ok"
    /\ value_result.qtys[5] = F(10)

(* C10: a source whose quantity is zero in every aligned pair, also when    *)
(* there is no pair at all, is reported with average 0 and total quantity   *)
(* 0, and nothing is divided by zero for it.                                *)
C10_ZeroQuantityGuard ==
    vpc = "done"
        => \A idx \in SourceIdx :
               (\A i \in 1 .. Len(emitted) : PairQty(emitted[i], idx) = 0)
                   => /\ value_result.averages[idx] = F(0)
                      /\ value_result.qtys[idx] = F(0)
                      /\ IsFinite(value_result.averages[idx])

\* two pairs in which coal is 0 throughout and geothermal is not
C10_Witness ==
    /\ vpc = "done"
    /\ Len(emitted) = 2
    /\ \A i \in 1 .. 2 : PairQty(emitted[i], 4) = 0
    /\ value_result.averages[4] = F(0)
    /\ value_result.qtys[4] = F(0)
    /\ value_result.qtys[5] # F(0)

----------------------------------------------------------------------------
(* The bucketed aggregations *)

\* the read loop ended with the reader exhausted and the finalization ran
Finalised == apc = "done" /\ agg_result.status # "decode"

\* how far bucket i's count is from bucket 0's
Diff(i) == Abs(counts[i] - counts[0])

(* C4 as claimed: an input that leaves some bucket with 0 lines and bucket  *)
(* 0 with 12 fails with the non-uniform-distribution error.                 *)
C4_TwelveAgainstZeroFails ==
    (Finalised /\ counts[0] = 12 /\ \E i \in BucketIdx : counts[i] = 0)
        => agg_result.status = "uneven"

(* C4 as amended: an input that leaves some bucket with 0 lines and bucket  *)
(* 0 with more than 12 (13 or more) fails with the non-uniform-distribution *)
(* error instead of returning a profile.                                    *)
C4_ThirteenAgainstZeroFails ==
    (Finalised /\ counts[0] > 12 /\ \E i \in BucketIdx : counts[i] = 0)
        => agg_result.status = "uneven" /\ agg_result.profile = <<>>

C4_Witness ==
    /\ Finalised
    /\ counts[0] = 13
    /\ counts[1] = 0
    /\ agg_result.status = "uneven"
    /\ agg_result.count0 = 13
    /\ agg_result.count = 0

(* C5 as claimed: one line for each of the 1440 minutes of a day leaves     *)
(* each of the 288 buckets with the same count, that count is 12, and the   *)
(* uniformity check passes.                                                 *)
C5_FullDayTwelveEach ==
    apc = "done"
        => /\ nread = 1440
           /\ DOMAIN counts = 0 .. 287
           /\ \A i \in 0 .. 287 : counts[i] = 12
           /\ agg_result.status = "ok"

(* C5 as amended: one line for each of the 1440 minutes of a day leaves     *)
(* each of the 288 buckets with the same count, that count is 5 (1440/288), *)
(* and the uniformity check passes.                                         *)
C5_FullDayFiveEach ==
    apc = "done"
        => /\ nread = 1440
           /\ DOMAIN counts = 0 .. 287
           /\ \A i \in 0 .. 287 : counts[i] = 5
           /\ agg_result.status = "ok"
           /\ DOMAIN agg_result.profile = 0 .. 287

C5_Witness ==
    /\ apc = "done"
    /\ kind = "gen"
    /\ day_order = "desc"
    /\ nread = 1440
    /\ counts[0] = 5
    /\ counts[287] = 5
    /\ agg_result.status = "ok"

(* C6: for every i in [0,288), time_to_idx_5min of the (hour, minute) that  *)
(* idx_5min_to_time(i) returns is i, and that (hour, minute) is             *)
(* ((i*5)/60, (i*5)%60), a time of the day.                                 *)
C6_RoundTrip ==
    /\ ipc \in {"time", "done"}
           => /\ idx_time = <<(idx_in * 5) \div 60, (idx_in * 5) % 60>>
              /\ idx_time[1] \in 0 .. 23
              /\ idx_time[2] \in 0 .. 59
    /\ ipc = "done" => idx_out = idx_in

C6_Witness ==
    /\ ipc = "done"
    /\ idx_in = 287
    /\ idx_time = <<23, 55>>
    /\ idx_out = 287

(* C7 as claimed: average_price_5min fails with the non-uniform error       *)
(* exactly when some bucket's count differs from bucket 0's by more than 8. *)
C7_PriceThresholdEight ==
    (Finalised /\ kind = "price")
        => (agg_result.status = "uneven" <=> \E i \in BucketIdx : Diff(i) > 8)

(* C7 as amended: average_price_5min fails with the non-uniform error       *)
(* exactly when some bucket's count differs from bucket 0's by more than    *)
(* 12; a difference of 9, 10, 11 or 12 does not fail, 13 does.              *)
C7_PriceThresholdTwelve ==
    (Finalised /\ kind = "price")
        => /\ agg_result.status = "uneven" <=> \E i \in BucketIdx : Diff(i) > 12
           /\ agg_result.status \in {"uneven", "ok"}

C7_Witness ==
    /\ Finalised
    /\ kind = "price"
    /\ counts[0] = 13
    /\ counts[1] = 1
    /\ agg_result.status = "uneven"

(* C8: average_gen_5min_custom fails exactly when some bucket's count       *)
(* differs from bucket 0's by more than 12; the error carries bucket 0's    *)
(* count and the count of the lowest-index offending bucket and no profile  *)
(* is returned; when no bucket offends a 288-slot profile is returned.      *)
C8_GenUniformityCheck ==
    (Finalised /\ kind \in {"gen", "gen_solar_battery"})
        => IF \E i \in BucketIdx : Diff(i) > 12
           THEN /\ agg_result.status = "uneven"
                /\ agg_result.count0 = counts[0]
                /\ \E i \in BucketIdx :
                       /\ Diff(i) > 12
                       /\ \A j \in 0 .. (i - 1) : Diff(j) <= 12
                       /\ agg_result.count = counts[i]
                /\ agg_result.profile = <<>>
           ELSE /\ agg_result.status = "ok"
                /\ DOMAIN agg_result.profile = 0 .. 287

\* bucket 1 has one line and offends first; the buckets behind it have none
C8_Witness ==
    /\ Finalised
    /\ kind = "gen"
    /\ counts[0] = 14
    /\ counts[1] = 1
    /\ counts[2] = 0
    /\ agg_result.status = "uneven"
    /\ agg_result.count0 = 14
    /\ agg_result.count = 1

----------------------------------------------------------------------------
(* C11: the solar/battery merge (donor index 1 'Batteries', receiver index  *)
(* 12 'Solar') leaves the donor entry exactly 0 and the receiver entry      *)
(* equal to the donor plus the receiver of before, in the bucketing         *)
(* pipeline and in the value pipeline; no other entry changes.              *)
C11_MergeDonorZeroReceiverSum ==
    mrg_out # <<>>
        => /\ source_keys[1 + 1] = "Batteries"
           /\ source_keys[12 + 1] = "Solar"
           /\ DOMAIN mrg_out = 0 .. 13
           /\ mrg_out[1] = 0
           /\ mrg_out[12] = mrg_row[1] + mrg_row[12]
           /\ \A i \in (0 .. 13) \ {1, 12} : mrg_out[i] = mrg_row[i]

\* a charging battery folded into the solar of the bucketing pipeline
C11_Witness ==
    /\ mrg_pipe = "bucket"
    /\ mrg_row[1] = -3
    /\ mrg_row[12] = 2
    /\ mrg_out # <<>>
    /\ mrg_out[1] = 0
    /\ mrg_out[12] = -1

----------------------------------------------------------------------------
(* C12: in average_value_solar_battery the merge is applied before the      *)
(* weighting: the battery source ends with quantity total 0 and reported    *)
(* average 0; solar's quantity total is the sum over the pairs of           *)
(* abs(solar + battery), not abs(solar) + abs(battery), and its value total *)
(* is built from that same combined quantity.                               *)

\* solar + battery of the gen row of a pair, as the row was read
CombinedQty(pair) == gen[pair[2]].sources[12] + gen[pair[2]].sources[1]

RECURSIVE SumAbsCombined(_)
SumAbsCombined(pairs) ==
    IF pairs = <<>> THEN 0
    ELSE Abs(CombinedQty(Head(pairs))) + SumAbsCombined(Tail(pairs))

RECURSIVE SumCombinedValue(_)
SumCombinedValue(pairs) ==
    IF pairs = <<>> THEN 0
    ELSE CombinedQty(Head(pairs)) * prices[Head(pairs)[1]].lmp_avg
             + SumCombinedValue(Tail(pairs))

RECURSIVE SumAbsSeparately(_)
SumAbsSeparately(pairs) ==
    IF pairs = <<>> THEN 0
    ELSE Abs(gen[Head(pairs)[2]].sources[12])
             + Abs(gen[Head(pairs)[2]].sources[1])
             + SumAbsSeparately(Tail(pairs))

C12_MergeBeforeWeighting ==
    (merge /\ vpc \in {"loop", "done", "panic"})
        => /\ qtys[1] = 0
           /\ accs[1] = 0
           /\ qtys[12] = SumAbsCombined(emitted)
           /\ accs[12] = SumCombinedValue(emitted)
           /\ vpc = "done"
                 => /\ value_result.status = "ok"
                    /\ value_result.qtys[1] = F(0)
                    /\ value_result.averages[1] = F(0)
                    /\ value_result.qtys[12] = F(SumAbsCombined(emitted))
                    /\ IF SumAbsCombined(emitted) # 0
                       THEN IsQuotient(value_result.averages[12],
                                       SumCombinedValue(emitted),
                                       SumAbsCombined(emitted))
                       ELSE value_result.averages[12] = F(0)

\* a charging battery (-5) against solar 3, then battery 5 with solar 2:
\* abs(-2) + abs(7) = 9, where abs taken separately would give 15
C12_Witness ==
    /\ merge
    /\ vpc = "done"
    /\ Len(emitted) = 2
    /\ SumAbsCombined(emitted) = 9
    /\ SumAbsSeparately(emitted) = 15
    /\ value_result.qtys[12] = F(9)
    /\ value_result.qtys[1] = F(0)
    /\ value_result.averages[12] = [n |-> 8, d |-> 3]

----------------------------------------------------------------------------
C13_EmptyInput ==
    (Finalised /\ nread = 0)
        => /\ agg_result.status = "ok"
           /\ \A i \in BucketIdx :
                  IF kind = "price" THEN agg_result.profile[i] = NaN
                  ELSE \A k \in 0 .. 13 : agg_result.profile[i][k] = NaN

----------------------------------------------------------------------------
(* C14: the csv written by write_energy_value_averages has, after the       *)
(* header (source, avg_price, net_mwh), one data row per entry of the       *)
(* 14-entry source vector, the synthetic total included: 14 data rows, the  *)
(* first labelled 'Total', each carrying the average (to two decimals) and  *)
(* the quantity of the source at the same index as its label.               *)

SourceNames ==
    << "Total", "Batteries", "Biogas", "Biomass", "Coal", "Geothermal",
       "Imports", "Large Hydro", "Natural Gas", "Nuclear", "Other",
       "Small Hydro", "Solar", "Wind" >>

\* the index in the source vector of the source of a name
IndexOfName(name) == (CHOOSE k \in 1 .. 14 : SourceNames[k] = name) - 1

\* a data row carries the figures of the source its label names
RowCarriesItsSource(row) ==
    /\ \E k \in 1 .. 14 : SourceNames[k] = row[1]
    /\ row[2] = FmtFixed2(value_result.averages[IndexOfName(row[1])])
    /\ row[3] = FmtDisplay(value_result.qtys[IndexOfName(row[1])])

\* the claim as it was stated: 13 data rows, none labelled 'Total'
C14_ThirteenRowsWithoutTotal ==
    csv_out # <<>>
        => /\ csv_out[1] = << "source", "avg_price", "net_mwh" >>
           /\ Len(csv_out) = 1 + 13
           /\ \A k \in 2 .. Len(csv_out) :
                  /\ csv_out[k][1] # "Total"
                  /\ RowCarriesItsSource(csv_out[k])

C14_FourteenRowsWithTotal ==
    csv_out # <<>>
        => /\ csv_out[1] = << "source", "avg_price", "net_mwh" >>
           /\ Len(csv_out) = 1 + 14
           /\ csv_out[2][1] = "Total"
           /\ \A k \in 2 .. Len(csv_out) :
                  /\ csv_out[k][1] = SourceNames[k - 1]
                  /\ RowCarriesItsSource(csv_out[k])

\* geothermal 10 at price 2 and 30 at price 4: the row reads
\* Geothermal,3.50,40 and the first data row is the total's
C14_Witness ==
    /\ Len(csv_out) = 15
    /\ csv_out[2][1] = "Total"
    /\ csv_out[7] = << "Geothermal",
                       [sign |-> "", int |-> 3, frac |-> 50],
                       [sign |-> "", int |-> 40] >>
    /\ csv_out[2][2] # csv_out[3][2]

----------------------------------------------------------------------------
(* The loop of next() taken one iteration at a time ends every call as      *)
(* IterNext, which takes a call as a whole, says.                           *)
IterStepsAgreeWithIterNext ==
    (vpc = "iter" /\ (ipos = "panic" \/ (ipos = "idle" /\ last # "")))
        => LET r == IterNext(prices, gen, call_at[1], call_at[2],
                             debug_assertions)
           IN  /\ r.p = pi
               /\ r.g = gi
               /\ r.kind = IF ipos = "panic" THEN "panic" ELSE last
               /\ r.kind = "none" => r.why = stop
               /\ r.kind = "some" => r.pair = emitted[Len(emitted)]

(* C15: every call of next terminates, for sorted and for unsorted inputs:  *)
(* an iteration of its loop either ends the call or consumes exactly one    *)
(* record from exactly one side, so a call skips at most len(prices) +      *)
(* len(gen) records; with either side exhausted the call returns None       *)
(* without consuming or emitting anything more, so the tail of the other    *)
(* side is dropped.                                                         *)

\* the rows a call has consumed beyond those it skipped: the pair's two
ConsumedInCall == (pi - call_at[1]) + (gi - call_at[2])

C15_SkipsBounded ==
    vpc = "iter"
        => /\ skips <= Len(prices) + Len(gen)
           /\ pi <= Len(prices)
           /\ gi <= Len(gen)
           /\ ConsumedInCall =
                  IF ipos = "panic" \/ (ipos = "idle" /\ last = "some")
                  THEN skips + 2 ELSE skips

C15_IterationReturnsOrConsumesOne ==
    ipos = "loop"
        => \/ /\ ipos' = "loop"
              /\ skips' = skips + 1
              /\ emitted' = emitted
              /\ \/ pi' = pi + 1 /\ gi' = gi
                 \/ pi' = pi /\ gi' = gi + 1
           \/ ipos' \in {"idle", "panic"}

C15_ExhaustedSideEndsWithNone ==
    (ipos = "loop" /\ (pi = Len(prices) \/ gi = Len(gen)))
        => /\ ipos' = "idle"
           /\ last' = "none"
           /\ pi' = pi
           /\ gi' = gi
           /\ emitted' = emitted

C15_NextTerminates ==
    /\ []C15_SkipsBounded
    /\ [][C15_IterationReturnsOrConsumesOne]_vars
    /\ [][C15_ExhaustedSideEndsWithNone]_vars
    /\ (ipos = "loop") ~> (ipos # "loop")

\* after one pair was emitted, a call skipped a price record, ran out of
\* prices and returned None with a generation row left over
C15_Witness ==
    /\ ipos = "idle"
    /\ last = "none"
    /\ stop = "exhausted"
    /\ skips = 1
    /\ Len(emitted) = 1
    /\ pi = Len(prices)
    /\ gi < Len(gen)

----------------------------------------------------------------------------
(* C16: for inputs that are ascending but may repeat timestamps, the drain  *)
(* pairs records one-to-one, never as a cross product: every record is in   *)
(* at most one emitted pair, the emitted price records and the emitted      *)
(* generation records are each a subsequence of their input, and the pairs  *)
(* emitted for a timestamp t number min(price records at t, generation      *)
(* records at t).                                                           *)

\* every row decodes and parses, and no row is earlier than the one before
CleanNonDescending ==
    /\ \A i \in 1 .. Len(prices) : GoodPrice(prices[i])
    /\ \A i \in 1 .. Len(gen) : GoodGen(gen[i])
    /\ \A i, j \in 1 .. Len(prices) :
           i < j => PriceTime(prices[i]) <= PriceTime(prices[j])
    /\ \A i, j \in 1 .. Len(gen) : i < j => GenTime(gen[i]) <= GenTime(gen[j])

PricesAt(t) == { i \in 1 .. Len(prices) : PriceTime(prices[i]) = t }
GenAt(t) == { j \in 1 .. Len(gen) : GenTime(gen[j]) = t }
PairsAt(t) ==
    { a \in 1 .. Len(emitted) : PriceTime(prices[emitted[a][1]]) = t }
TimesOfInput ==
    { PriceTime(prices[i]) : i \in 1 .. Len(prices) }
        \cup { GenTime(gen[j]) : j \in 1 .. Len(gen) }

\* no record twice, and both sides of the pairs in the order of their input
OneToOneInOrder ==
    /\ \A a \in 1 .. Len(emitted) :
           /\ emitted[a][1] \in 1 .. Len(prices)
           /\ emitted[a][2] \in 1 .. Len(gen)
           /\ PriceTime(prices[emitted[a][1]]) = GenTime(gen[emitted[a][2]])
    /\ \A a, b \in 1 .. Len(emitted) :
           a < b => /\ emitted[a][1] < emitted[b][1]
                    /\ emitted[a][2] < emitted[b][2]

MinOfEachTime ==
    \A t \in TimesOfInput :
        Cardinality(PairsAt(t)) =
            IF Cardinality(PricesAt(t)) < Cardinality(GenAt(t))
            THEN Cardinality(PricesAt(t)) ELSE Cardinality(GenAt(t))

C16_OneToOnePairing ==
    (vpc \in {"done", "panic"} /\ ~merge /\ CleanNonDescending)
        => /\ OneToOneInOrder
           /\ MinOfEachTime

\* Beside C16: it holds of every build when no timestamp string is unpadded,
\* and of a build without debug assertions for every such input; the pairs
\* are one-to-one and in order whatever the input and the build.
C16_HoldsWithoutTheAssertFailing ==
    /\ vpc \in {"loop", "done", "panic"} => OneToOneInOrder
    /\ (vpc \in {"done", "panic"} /\ CleanNonDescending
           /\ (~debug_assertions
                  \/ \A i \in 1 .. Len(prices) :
                         prices[i].timestamp.form = "padded"))
           => /\ vpc = "done"
              /\ MinOfEachTime

\* two price records and two generation records at one timestamp give two
\* pairs, not four
C16_RepeatedTimestampPairedOnce ==
    /\ vpc = "done"
    /\ CleanNonDescending
    /\ \E t \in TimesOfInput :
           /\ Cardinality(PricesAt(t)) = 2
           /\ Cardinality(GenAt(t)) = 2
           /\ Cardinality(PairsAt(t)) = 2

----------------------------------------------------------------------------
(* C17: PriceGenIter is fused: once next has returned None, be it for an    *)
(* exhausted side, a decode error at a head or a head timestamp that does   *)
(* not parse, every later call of next on the same iterator returns None    *)
(* too and consumes no further record from either side.                     *)
C17_FusedStep ==
    nones >= 1
        => /\ pi' = pi
           /\ gi' = gi
           /\ emitted' = emitted
           /\ skips' = 0
           /\ last' = "none"
           /\ ipos' \in {"idle", "loop"}
           /\ stop' \in {"exhausted", "decode", "malformed"}
           /\ stop' = stop

C17_Fused == [][C17_FusedStep]_vars

\* None was returned twice at a generation head that does not decode, with
\* price records left behind it that a resumed iterator could have paired
C17_Witness ==
    /\ ipos = "idle"
    /\ nones = 2
    /\ last = "none"
    /\ stop = "decode"
    /\ gi < Len(gen)
    /\ ~gen[gi + 1].ok
    /\ pi < Len(prices)
    /\ Len(emitted) = 1

\* None was returned twice at a head whose timestamp does not parse
C17_WitnessMalformed ==
    /\ ipos = "idle"
    /\ nones = 2
    /\ stop = "malformed"

====
